---- MODULE Spec2Model ----
(***************************************************************************)
(* Model of src/index.js: the language-classifier comparison batch.        *)
(*                                                                         *)
(* Text is a sequence of one-character strings.  The event loop is         *)
(* modelled at the granularity of its callbacks: every action is one       *)
(* resumption of an async function after an await, run to its next await.  *)
(***************************************************************************)
EXTENDS Integers, Sequences, FiniteSets, TLC

VARIABLES
    storage,    \* object storage: fingerprint -> pages 1..N (page N+1 has no key)
    csvFiles,   \* rows of each job's materials CSV
    mainpc,     \* number of top-level statements of lines 287-288 executed
    jobpc,      \* per job: "idle", "reading", "fetching", "done", "rejected"
    rows,       \* per job, per row: the row's async callback (getTextPreview locals)
    values,     \* per job: the value array Promise.all assembles
    settled,    \* per job: the row indices in the order their promises settled
    buckets,    \* per job: the three bucket arrays and the samples drawn from them
    fs,         \* file system: path -> written JSON value
    fsLog,      \* paths in the order writeFileSync was called
    exited,     \* the process has terminated on an unhandled rejection
    op,         \* which pure function was applied (pure-function specifications)
    input,      \* its argument
    output      \* its result

vars == <<storage, csvFiles, mainpc, jobpc, rows, values, settled, buckets, fs, fsLog,
          exited, op, input, output>>

----------------------------------------------------------------------------
(* Bounds of the model *)

\* MAX_TEXT_LENGTH is 24000 at src/index.js:7; texts are scaled down to this.
ScaledMaxTextLength == 12
\* sampleSize is 25 at src/index.js:141; buckets are scaled down to this.
ScaledSampleSize == 2
\* most pages a stored document has
MaxPages == 2
\* most rows of the "pt" job's CSV
MaxRows == 2
\* most records of a batch handed to aggregateResults on its own
MaxBatch == 2

MAX_TEXT_LENGTH == ScaledMaxTextLength

sampleSize == ScaledSampleSize

----------------------------------------------------------------------------
(* Helpers *)

Min(a, b) == IF a < b THEN a ELSE b

Range(s) == {s[k] : k \in DOMAIN s}

SeqsUpTo(S, n) == UNION {[1..k -> S] : k \in 0..n}

Perms(n) == {p \in [1..n -> 1..n] : \A a, b \in 1..n : p[a] = p[b] => a = b}

Count(s, x) == Cardinality({k \in DOMAIN s : s[k] = x})

Jobs == {"pt", "es"}

fileData ==
    [es |-> [materials |-> "materiais-studenta-marcados-como-pt.csv",
             currentLanguage |-> "pt",
             expectedLanguage |-> "es",
             output |-> "results/results-materiais-studenta-marcados-como-pt.json",
             aggregatedResultsFolder |-> "aggregated-results/materiais-studenta"],
     pt |-> [materials |-> "materiais-pd-marcados-como-es.csv",
             currentLanguage |-> "es",
             expectedLanguage |-> "pt",
             output |-> "results/results-materiais-pd-marcados-como-es.json",
             aggregatedResultsFolder |-> "aggregated-results/materiais-pd"]]

----------------------------------------------------------------------------
(* getTextPreview: per-page normalisation, lines 46-50 *)

\* .replaceAll(/ +/g, " ")
RECURSIVE CollapseSpaces(_)
CollapseSpaces(s) ==
    IF Len(s) <= 1 THEN s
    ELSE IF s[1] = " " /\ s[2] = " " THEN CollapseSpaces(Tail(s))
    ELSE <<s[1]>> \o CollapseSpaces(Tail(s))

RECURSIVE DropLeadingSpaces(_)
DropLeadingSpaces(s) ==
    IF s # <<>> /\ s[1] = " " THEN DropLeadingSpaces(Tail(s)) ELSE s

RECURSIVE DropTrailingSpaces(_)
DropTrailingSpaces(s) ==
    IF s # <<>> /\ s[Len(s)] = " " THEN DropTrailingSpaces(SubSeq(s, 1, Len(s) - 1)) ELSE s

TrimEndsKeep(s) == s

\* .replaceAll(/(^ +| +$)/g, "")
TrimEnds(s) == DropTrailingSpaces(DropLeadingSpaces(s))

\* .replaceAll(/(\r?\n?\t?)+/g, ""): every CR, LF and TAB is matched by some
\* iteration of the group; the empty matches in between replace nothing.
DeleteLineBreaks(s) == SelectSeq(s, LAMBDA c : c \notin {"\r", "\n", "\t"})

\* the regular expression's "." matches any character but a line terminator
IsDot(c) == c \notin {"\r", "\n"}

StartsWithHttp(s) ==
    Len(s) >= 4 /\ s[1] = "h" /\ s[2] = "t" /\ s[3] = "t" /\ s[4] = "p"

\* For s starting with "http": the first index e >= 5 with s[e] a space, or
\* Len(s)+1 at the end of the string, provided "s?.*?" can consume s[5..e-1];
\* 0 when no match starts at index 1.
UrlEnd(s) ==
    LET stops == {e \in 5..(Len(s) + 1) : e = Len(s) + 1 \/ s[e] = " "}
        e0 == CHOOSE e \in stops : \A f \in stops : e <= f
    IN IF \A k \in 5..(e0 - 1) : IsDot(s[k]) THEN e0 ELSE 0

\* .replaceAll(/https?.*?(?= |$)/g, "")
RECURSIVE StripUrls(_)
StripUrls(s) ==
    IF s = <<>> THEN <<>>
    ELSE IF StartsWithHttp(s) /\ UrlEnd(s) # 0
         THEN StripUrls(SubSeq(s, UrlEnd(s), Len(s)))
         ELSE <<s[1]>> \o StripUrls(Tail(s))

Normalize(str) == StripUrls(DeleteLineBreaks(TrimEnds(CollapseSpaces(str))))

SliceKeep(s, n) == s

\* String.prototype.slice(0, n)
Slice(s, n) == SubSeq(s, 1, Min(n, Len(s)))

LoopContinuesAlways(textPreview) == TRUE

\* the while condition of line 37
LoopContinues(textPreview) == Len(textPreview) < MAX_TEXT_LENGTH

IsEndOfPaginationAny(code) == TRUE

IsEndOfPaginationNever(code) == FALSE

\* the catch clause of lines 53-59: break on NoSuchKey, rethrow anything else
IsEndOfPagination(code) == code = "NoSuchKey"

----------------------------------------------------------------------------
(* detectLanguage, lines 65-84 *)

Codes == {"pt", "es", "en"}

\* what the POST to the detection service may come back with
ServiceResponses ==
    {[kind |-> k, hasLanguage |-> FALSE, language |-> <<>>] : k \in {"networkError", "notJson", "json"}}
    \cup {[kind |-> "json", hasLanguage |-> TRUE, language |-> <<>>]}
    \cup {[kind |-> "json", hasLanguage |-> TRUE, language |-> <<[codex |-> c]>>] : c \in Codes}

\* what langdetect.detect(text, 1) may return: at most one [language, score] pair
LegacyGuesses == {<<>>, << <<"en", 1>> >>}

\* fetch rejects, response.json() rejects, or language[0].codex is a TypeError
DetectThrows(resp) ==
    \/ resp.kind # "json"
    \/ ~resp.hasLanguage
    \/ resp.language = <<>>

DetectValueNoDefault(resp, guesses) ==
    [new |-> resp.language[1].codex,
     old |-> IF guesses = <<>> THEN "undefined" ELSE guesses[1][1]]

\* lines 80-83
DetectValue(resp, guesses) ==
    [new |-> resp.language[1].codex,
     old |-> IF guesses = <<>> THEN "" ELSE guesses[1][1]]

----------------------------------------------------------------------------
(* aggregateResults, lines 86-138 *)

\* lines 87-103
Project(r) ==
    [id |-> r.id, name |-> r.name,
     currentLanguage |-> r.currentLanguage,
     expectedLanguage |-> r.expectedLanguage,
     newDetectedLanguage |-> r.newDetectedLanguage,
     oldDetectedLanguage |-> r.oldDetectedLanguage]

NewResults(results) == [k \in DOMAIN results |-> Project(results[k])]

IsDifferentEither(result) ==
    \/ result.expectedLanguage # result.newDetectedLanguage
    \/ result.currentLanguage # result.newDetectedLanguage

\* lines 105-110
IsDifferent(result) ==
    /\ result.expectedLanguage # result.newDetectedLanguage
    /\ result.currentLanguage # result.newDetectedLanguage

IsSameAsCurrentSwapped(result) == result.expectedLanguage = result.newDetectedLanguage

\* lines 112-114
IsSameAsCurrent(result) == result.currentLanguage = result.newDetectedLanguage

IsSameAsExpectedOld(result) == result.expectedLanguage = result.oldDetectedLanguage

\* lines 116-118
IsSameAsExpected(result) == result.expectedLanguage = result.newDetectedLanguage

\* the value returned at lines 133-137
aggregateResults(results) ==
    [differentResults |-> SelectSeq(NewResults(results), IsDifferent),
     sameAsCurrent |-> SelectSeq(NewResults(results), IsSameAsCurrent),
     sameAsExpected |-> SelectSeq(NewResults(results), IsSameAsExpected)]

BucketPaths(outputFolder) ==
    <<outputFolder \o "/different-than-expected-and-current.json",
      outputFolder \o "/same-as-current.json",
      outputFolder \o "/same-as-expected.json">>

----------------------------------------------------------------------------
(* getSample and getSamples, lines 140-169 *)

ShuffleRepeating(results, perm) == [k \in DOMAIN results |-> results[perm[1]]]

\* results.sort(() => 0.5 - Math.random()): the comparator is inconsistent, so
\* the engine leaves the array in some permutation of itself; perm is that one.
Shuffle(results, perm) == [k \in DOMAIN results |-> results[perm[k]]]

SampleOneMore(shuffled) == Slice(shuffled, sampleSize + 1)

\* shuffled.slice(0, sampleSize)
Sample(shuffled) == Slice(shuffled, sampleSize)

\* getSample: the array as the in-place sort leaves it, and the returned sample
getSample(results, perm) ==
    [array |-> Shuffle(results, perm), sample |-> Sample(Shuffle(results, perm))]

SamplePaths(outputFolder) ==
    <<outputFolder \o "/manual-analysis/different-than-expected-and-current-sample.json",
      outputFolder \o "/manual-analysis/same-as-current-sample.json",
      outputFolder \o "/manual-analysis/same-as-expected-sample.json">>

JobPaths(key) ==
    <<fileData[key].output>>
    \o BucketPaths(fileData[key].aggregatedResultsFolder)
    \o SamplePaths(fileData[key].aggregatedResultsFolder)

----------------------------------------------------------------------------
(* The stored documents and the CSV rows the model draws from *)

Hello_ == <<"H", "e", "l", "l", "o", " ">>

World == <<"W", "o", "r", "l", "d">>

Spaced == <<" ", "a", " ", " ", "b", " ">>

Broken == <<"a", "\n", "\t", "b">>

Linked == <<"h", "t", "t", "p", ":", "x", " ", "y">>

LongPage == [k \in 1..(MAX_TEXT_LENGTH + 2) |-> "a"]

\* a page longer than MAX_TEXT_LENGTH that is one letter once normalised
PaddedPage == [k \in 1..(MAX_TEXT_LENGTH + 2) |-> IF k = 1 THEN "a" ELSE " "]

PageTexts == {<<>>, Hello_, World, Spaced, Broken, Linked, LongPage, PaddedPage}

Fingerprints == {"f0", "f1", "fx"}

\* the documents of the job runs: f1 has the pages "Hello " and "World", f0 none
FixedStorage == [f \in Fingerprints |-> IF f = "f1" THEN <<Hello_, World>> ELSE <<>>]

\* the one row of the "es" job's CSV
Doc1Row == [id |-> 1, fileurl |-> "f1", name |-> "Doc1"]

\* CSVs of up to n rows over the documents in F, ids numbered down the file
RowLists(F, n) == {[i \in DOMAIN l |-> [id |-> i, fileurl |-> l[i], name |-> "Doc"]] :
                   l \in SeqsUpTo(F, n)}

\* error codes the storage client may raise
StorageErrors == {"NoSuchKey", "AccessDenied"}

----------------------------------------------------------------------------
(* The state of one row's async callback, lines 185-203 with getTextPreview inlined *)

IdleRow ==
    [pc |-> "idle", page |-> 1, textPreview |-> <<>>, requests |-> <<>>,
     answer |-> "none", returned |-> <<>>, posted |-> <<>>, error |-> "none",
     detected |-> [new |-> "", old |-> ""]]

\* a slot of the value array that no fulfilment has filled
EmptySlot ==
    [id |-> 0, name |-> "", fileurl |-> "", currentLanguage |-> "",
     expectedLanguage |-> "", newDetectedLanguage |-> "", oldDetectedLanguage |-> "",
     textPreviewLength |-> 0, textPreview |-> <<>>]

NoBuckets ==
    [differentResults |-> <<>>, sameAsCurrent |-> <<>>, sameAsExpected |-> <<>>,
     differentResultsSample |-> <<>>, sameAsCurrentSample |-> <<>>,
     sameAsExpectedSample |-> <<>>]

\* lines 34-37 and the loop's next turn: request the page, or leave the loop,
\* return the slice (line 62) and post it to the detection service (line 68)
LoopOrReturn(r) ==
    IF LoopContinues(r.textPreview)
    THEN [r EXCEPT !.pc = "fetching", !.requests = Append(@, r.page)]
    ELSE [r EXCEPT !.pc = "detecting",
                   !.returned = Slice(r.textPreview, MAX_TEXT_LENGTH),
                   !.posted = Append(@, Slice(r.textPreview, MAX_TEXT_LENGTH))]

\* break (line 55), then lines 62 and 68
BreakAndReturn(r) ==
    [r EXCEPT !.pc = "detecting",
              !.returned = Slice(r.textPreview, MAX_TEXT_LENGTH),
              !.posted = Append(@, Slice(r.textPreview, MAX_TEXT_LENGTH))]

\* lines 192-202
ResultRecord(key, file, r, detected) ==
    [id |-> file.id, name |-> file.name, fileurl |-> file.fileurl,
     currentLanguage |-> fileData[key].currentLanguage,
     expectedLanguage |-> fileData[key].expectedLanguage,
     newDetectedLanguage |-> detected.new,
     oldDetectedLanguage |-> detected.old,
     textPreviewLength |-> Len(r.returned),
     textPreview |-> r.returned]

FirstEmpty(vals) == CHOOSE k \in DOMAIN vals : vals[k] = EmptySlot /\ \A j \in 1..(k - 1) : vals[j] # EmptySlot

PromiseAllStoreInOrderOfCompletion(vals, i, v) == [vals EXCEPT ![FirstEmpty(vals)] = v]

\* Promise.all keeps each fulfilment value at the index of its promise
PromiseAllStore(vals, i, v) == [vals EXCEPT ![i] = v]

PromiseAllSettled(rws) == \A i \in DOMAIN rws : rws[i].pc \in {"fulfilled", "rejected"}

\* Promise.all fulfils when every promise has fulfilled
PromiseAllResolves(rws) == \A i \in DOMAIN rws : rws[i].pc = "fulfilled"

\* Promise.all rejects with the first rejection
PromiseAllRejects(rws) == \E i \in DOMAIN rws : rws[i].pc = "rejected"

----------------------------------------------------------------------------
(* runJob, lines 171-229 *)

\* the buckets shuffled by getSample before their files are written
WriteResultsSampledFirst(key, results, p1, p2, p3) ==
    LET agg == aggregateResults(results)
        s1 == getSample(agg.differentResults, p1)
        s2 == getSample(agg.sameAsCurrent, p2)
        s3 == getSample(agg.sameAsExpected, p3)
        paths == JobPaths(key)
        contents == <<results, s1.array, s2.array, s3.array,
                      s1.sample, s2.sample, s3.sample>>
    IN /\ fs' = [q \in DOMAIN fs \cup Range(paths) |->
                    IF q \in Range(paths)
                    THEN contents[CHOOSE k \in DOMAIN paths : paths[k] = q]
                    ELSE fs[q]]
       /\ fsLog' = fsLog \o paths
       /\ buckets' = [buckets EXCEPT ![key] =
                        [differentResults |-> s1.array,
                         sameAsCurrent |-> s2.array,
                         sameAsExpected |-> s3.array,
                         differentResultsSample |-> s1.sample,
                         sameAsCurrentSample |-> s2.sample,
                         sameAsExpectedSample |-> s3.sample]]

\* lines 206-228, run without an await in between: the full results, the three
\* buckets (aggregateResults), then the three samples (getSamples)
WriteResults(key, results, p1, p2, p3) ==
    LET agg == aggregateResults(results)
        s1 == getSample(agg.differentResults, p1)
        s2 == getSample(agg.sameAsCurrent, p2)
        s3 == getSample(agg.sameAsExpected, p3)
        paths == JobPaths(key)
        contents == <<results, agg.differentResults, agg.sameAsCurrent, agg.sameAsExpected,
                      s1.sample, s2.sample, s3.sample>>
    IN /\ fs' = [q \in DOMAIN fs \cup Range(paths) |->
                    IF q \in Range(paths)
                    THEN contents[CHOOSE k \in DOMAIN paths : paths[k] = q]
                    ELSE fs[q]]
       /\ fsLog' = fsLog \o paths
       /\ buckets' = [buckets EXCEPT ![key] =
                        [differentResults |-> s1.array,
                         sameAsCurrent |-> s2.array,
                         sameAsExpected |-> s3.array,
                         differentResultsSample |-> s1.sample,
                         sameAsCurrentSample |-> s2.sample,
                         sameAsExpectedSample |-> s3.sample]]

\* what the await of line 184 does once the rows of the job stand at rws
Settle(key, rws, vals) ==
    IF PromiseAllResolves(rws)
    THEN /\ jobpc' = [jobpc EXCEPT ![key] = "done"]
         /\ LET agg == aggregateResults(vals)
            IN \E p1 \in Perms(Len(agg.differentResults)),
                  p2 \in Perms(Len(agg.sameAsCurrent)),
                  p3 \in Perms(Len(agg.sameAsExpected)) :
                    WriteResults(key, vals, p1, p2, p3)
    ELSE /\ jobpc' = [jobpc EXCEPT ![key] =
                        IF PromiseAllRejects(rws) THEN "rejected" ELSE "fetching"]
         /\ UNCHANGED <<fs, fsLog, buckets>>

\* lines 287-288: runJob(key) is called and runs to its first await (line 181);
\* the promise it returns is dropped
CallRunJob(key) ==
    /\ ~exited
    /\ mainpc = (IF key = "pt" THEN 0 ELSE 1)
    /\ mainpc' = mainpc + 1
    /\ jobpc' = [jobpc EXCEPT ![key] = "reading"]
    /\ UNCHANGED <<storage, csvFiles, rows, values, settled, buckets, fs, fsLog, exited,
                   op, input, output>>

\* line 181 resolves: files.map starts every row's callback, each running to its
\* first await (line 44, the request for page 1); Promise.all awaits them all
CsvLoaded(key) ==
    /\ ~exited
    /\ jobpc[key] = "reading"
    /\ LET rws == [i \in DOMAIN csvFiles[key] |-> LoopOrReturn(IdleRow)]
           vals == [i \in DOMAIN csvFiles[key] |-> EmptySlot]
       IN /\ rows' = [rows EXCEPT ![key] = rws]
          /\ values' = [values EXCEPT ![key] = vals]
          /\ Settle(key, rws, vals)
    /\ UNCHANGED <<storage, csvFiles, mainpc, settled, exited, op, input, output>>

\* lines 44-52: the page arrives, is normalised and appended; then line 37 again
PageFetched(key, i) ==
    /\ ~exited
    /\ i \in DOMAIN rows[key]
    /\ rows[key][i].pc = "fetching"
    /\ LET r == rows[key][i]
           pages == storage[csvFiles[key][i].fileurl]
       IN /\ r.page <= Len(pages)
          /\ rows' = [rows EXCEPT ![key][i] =
                LoopOrReturn([r EXCEPT !.textPreview = @ \o Normalize(pages[r.page]),
                                       !.page = @ + 1,
                                       !.answer = "Ok"])]
    /\ UNCHANGED <<storage, csvFiles, mainpc, jobpc, values, settled, buckets, fs, fsLog,
                   exited, op, input, output>>

\* lines 53-59: client.send throws; storage raises NoSuchKey exactly for a
\* page that is not stored, and may raise any other error for any request
PageFailed(key, i, code) ==
    /\ ~exited
    /\ i \in DOMAIN rows[key]
    /\ rows[key][i].pc = "fetching"
    /\ LET r == rows[key][i]
           pages == storage[csvFiles[key][i].fileurl]
           rws == [rows[key] EXCEPT ![i] =
                    IF IsEndOfPagination(code)
                    THEN BreakAndReturn([r EXCEPT !.answer = code])
                    ELSE [r EXCEPT !.answer = code, !.pc = "rejected", !.error = code]]
       IN /\ (code = "NoSuchKey") <=> (r.page > Len(pages))
          /\ rows' = [rows EXCEPT ![key] = rws]
          /\ settled' = [settled EXCEPT ![key] =
                            IF IsEndOfPagination(code) THEN @ ELSE Append(@, i)]
          /\ Settle(key, rws, values[key])
    /\ UNCHANGED <<storage, csvFiles, mainpc, values, exited, op, input, output>>

\* lines 68-83 and 190-202: the service answers; detectLanguage returns or throws
DetectAnswered(key, i, resp, guesses) ==
    /\ ~exited
    /\ i \in DOMAIN rows[key]
    /\ rows[key][i].pc = "detecting"
    /\ LET r == rows[key][i]
           threw == DetectThrows(resp)
           rws == [rows[key] EXCEPT ![i] =
                    IF threw THEN [r EXCEPT !.pc = "rejected", !.error = "detect"]
                    ELSE [r EXCEPT !.pc = "fulfilled",
                                   !.detected = DetectValue(resp, guesses)]]
           vals == IF threw THEN values[key]
                   ELSE PromiseAllStore(values[key], i,
                            ResultRecord(key, csvFiles[key][i], r, DetectValue(resp, guesses)))
       IN /\ rows' = [rows EXCEPT ![key] = rws]
          /\ values' = [values EXCEPT ![key] = vals]
          /\ settled' = [settled EXCEPT ![key] = Append(@, i)]
          /\ Settle(key, rws, vals)
    /\ UNCHANGED <<storage, csvFiles, mainpc, exited, op, input, output>>

\* lines 287-288 attach no handler to the promises: a rejected runJob is an
\* unhandled rejection, on which the runtime may terminate the process
ProcessExit ==
    /\ ~exited
    /\ \E key \in Jobs : jobpc[key] = "rejected"
    /\ exited' = TRUE
    /\ UNCHANGED <<storage, csvFiles, mainpc, jobpc, rows, values, settled, buckets, fs,
                   fsLog, op, input, output>>

----------------------------------------------------------------------------
(* The batch *)

InitJobs ==
    /\ mainpc = 0
    /\ jobpc = [key \in Jobs |-> "idle"]
    /\ rows = [key \in Jobs |-> <<>>]
    /\ values = [key \in Jobs |-> <<>>]
    /\ settled = [key \in Jobs |-> <<>>]
    /\ buckets = [key \in Jobs |-> NoBuckets]
    /\ fs = <<>>
    /\ fsLog = <<>>
    /\ exited = FALSE

NoCall ==
    /\ op = "none"
    /\ input = <<>>
    /\ output = <<>>

\* One of: a document of any content read by a one-row "pt" job; the fixed
\* documents read by a "pt" job of up to MaxRows rows; the fixed documents read
\* by a "pt" job of at most one row beside the one-row "es" job.
Configurations ==
    {[storage |-> [FixedStorage EXCEPT !["fx"] = d],
      csvFiles |-> [pt |-> <<[id |-> 1, fileurl |-> "fx", name |-> "Doc"]>>, es |-> <<>>]] :
        d \in SeqsUpTo(PageTexts, MaxPages)}
    \cup {[storage |-> FixedStorage, csvFiles |-> [pt |-> l, es |-> <<>>]] :
            l \in RowLists({"f0", "f1"}, MaxRows)}
    \cup {[storage |-> FixedStorage, csvFiles |-> [pt |-> l, es |-> <<Doc1Row>>]] :
            l \in RowLists({"f0", "f1"}, 1)}

Init ==
    /\ InitJobs
    /\ NoCall
    /\ \E c \in Configurations : storage = c.storage /\ csvFiles = c.csvFiles

Next ==
    \/ \E key \in Jobs : CallRunJob(key)
    \/ \E key \in Jobs : CsvLoaded(key)
    \/ \E key \in Jobs, i \in 1..MaxRows : PageFetched(key, i)
    \/ \E key \in Jobs, i \in 1..MaxRows, code \in StorageErrors : PageFailed(key, i, code)
    \/ \E key \in Jobs, i \in 1..MaxRows, resp \in ServiceResponses, guesses \in LegacyGuesses :
            DetectAnswered(key, i, resp, guesses)
    \/ ProcessExit

Spec == Init /\ [][Next]_vars

----------------------------------------------------------------------------
(* aggregateResults and getSample applied on their own *)

LanguageLabels == {"pt", "es", "en"}

\* batches of result records under every pairing of labels and detected code
Batches ==
    {[k \in DOMAIN b |->
        [id |-> k, name |-> "Doc", fileurl |-> "f0",
         currentLanguage |-> b[k][1], expectedLanguage |-> b[k][2],
         newDetectedLanguage |-> b[k][3], oldDetectedLanguage |-> "",
         textPreviewLength |-> 0, textPreview |-> <<>>]] :
     b \in SeqsUpTo(LanguageLabels \X LanguageLabels \X LanguageLabels, MaxBatch)}

InitAggregate ==
    /\ InitJobs
    /\ storage = FixedStorage
    /\ csvFiles = [pt |-> <<>>, es |-> <<>>]
    /\ op = "none"
    /\ input \in Batches
    /\ output = <<>>

ApplyAggregateResults ==
    /\ op = "none"
    /\ op' = "aggregateResults"
    /\ output' = aggregateResults(input)
    /\ UNCHANGED <<storage, csvFiles, mainpc, jobpc, rows, values, settled, buckets, fs,
                   fsLog, exited, input>>

NextAggregate == ApplyAggregateResults

SpecAggregate == InitAggregate /\ [][NextAggregate]_vars

\* buckets of up to sampleSize + 1 records, repeated records included
BucketRecords ==
    {[id |-> n, name |-> "Doc", currentLanguage |-> "pt", expectedLanguage |-> "es",
      newDetectedLanguage |-> "en", oldDetectedLanguage |-> ""] : n \in 1..3}

InitSample ==
    /\ InitJobs
    /\ storage = FixedStorage
    /\ csvFiles = [pt |-> <<>>, es |-> <<>>]
    /\ op = "none"
    /\ input \in SeqsUpTo(BucketRecords, sampleSize + 1)
    /\ output = <<>>

ApplyGetSample ==
    /\ op = "none"
    /\ op' = "getSample"
    /\ \E perm \in Perms(Len(input)) : output' = getSample(input, perm)
    /\ UNCHANGED <<storage, csvFiles, mainpc, jobpc, rows, values, settled, buckets, fs,
                   fsLog, exited, input>>

NextSample == ApplyGetSample

SpecSample == InitSample /\ [][NextSample]_vars

----------------------------------------------------------------------------
(* Properties *)

AllRows == {<<key, i>> : key \in Jobs, i \in 1..MaxRows}

RowOf(ki) == rows[ki[1]][ki[2]]

PagesOf(ki) == storage[csvFiles[ki[1]][ki[2]].fileurl]

Started == {ki \in AllRows : ki[2] \in DOMAIN rows[ki[1]]}

\* getTextPreview has returned a value for the row
HasReturned(r) ==
    \/ r.pc \in {"detecting", "fulfilled"}
    \/ r.pc = "rejected" /\ r.error = "detect"

\* the concatenation of the normalised pages 1..n, computed from the store
RECURSIVE ConcatNormalized(_, _)
ConcatNormalized(pages, n) ==
    IF n = 0 THEN <<>> ELSE ConcatNormalized(pages, n - 1) \o Normalize(pages[n])

HelloWorld == <<"H", "e", "l", "l", "o", "W", "o", "r", "l", "d">>

HelloSpaceWorld == <<"H", "e", "l", "l", "o", " ", "W", "o", "r", "l", "d">>

InSeq(x, s) == \E k \in DOMAIN s : s[k] = x

Written(path) == InSeq(path, fsLog)

\* C1: every preview getTextPreview returns is at most MAX_TEXT_LENGTH long,
\* and when the concatenation of the normalised pages it fetched is longer,
\* the preview is exactly the first MAX_TEXT_LENGTH characters of it.
C1_PreviewBounded ==
    \A ki \in Started :
        LET r == RowOf(ki)
            whole == ConcatNormalized(PagesOf(ki), r.page - 1)
        IN HasReturned(r) =>
            /\ Len(r.returned) <= MAX_TEXT_LENGTH
            /\ Len(whole) > MAX_TEXT_LENGTH => r.returned = SubSeq(whole, 1, MAX_TEXT_LENGTH)

\* a preview was cut: the last page fetched overshot the bound
C1_Witness ==
    \E ki \in Started :
        /\ HasReturned(RowOf(ki))
        /\ RowOf(ki).page = 3
        /\ Len(ConcatNormalized(PagesOf(ki), 2)) > MAX_TEXT_LENGTH
        /\ Len(RowOf(ki).returned) = MAX_TEXT_LENGTH

\* C2: a returned preview shorter than MAX_TEXT_LENGTH means the last storage
\* request, the one for the page index the loop stood at, was answered NoSuchKey.
C2_ShortMeansNoSuchKey ==
    \A ki \in Started :
        LET r == RowOf(ki)
        IN (HasReturned(r) /\ Len(r.returned) < MAX_TEXT_LENGTH) =>
            /\ r.answer = "NoSuchKey"
            /\ r.requests # <<>>
            /\ r.requests[Len(r.requests)] = r.page
            /\ r.page = Len(PagesOf(ki)) + 1

\* a short preview was returned after some pages were fetched
C2_Witness ==
    \E ki \in Started :
        /\ HasReturned(RowOf(ki))
        /\ RowOf(ki).page > 1
        /\ Len(RowOf(ki).returned) < MAX_TEXT_LENGTH
        /\ RowOf(ki).answer = "NoSuchKey"

\* C3: once a row of a job has failed (its fetch or its detection threw), the
\* job is rejected and no file of the job is written, whatever the other rows do.
C3_FailedJobWritesNothing ==
    \A key \in Jobs :
        (\E i \in DOMAIN rows[key] : rows[key][i].pc = "rejected") =>
            /\ jobpc[key] = "rejected"
            /\ \A k \in DOMAIN JobPaths(key) :
                    ~Written(JobPaths(key)[k]) /\ JobPaths(key)[k] \notin DOMAIN fs

\* a job whose second row failed and whose first row completed after it
C3_Witness ==
    \E key \in Jobs :
        /\ Len(rows[key]) = 2
        /\ rows[key][2].pc = "rejected"
        /\ rows[key][1].pc = "fulfilled"
        /\ settled[key] = <<2, 1>>

\* C4: the persisted full-results array has one record per source row, and its
\* i-th record is the one built from the i-th row, in whatever order rows complete.
C4_ResultsInRowOrder ==
    \A key \in Jobs :
        jobpc[key] = "done" =>
            /\ fileData[key].output \in DOMAIN fs
            /\ Len(fs[fileData[key].output]) = Len(csvFiles[key])
            /\ \A i \in DOMAIN csvFiles[key] :
                    fs[fileData[key].output][i] =
                        ResultRecord(key, csvFiles[key][i], rows[key][i], rows[key][i].detected)

\* a job whose second row completed before its first, with different results
C4_Witness ==
    \E key \in Jobs :
        /\ jobpc[key] = "done"
        /\ settled[key] = <<2, 1>>
        /\ fs[fileData[key].output][1] # [fs[fileData[key].output][2] EXCEPT !.id = 1]

\* C5: job "es" does none of its work (no storage request, no detection call, no
\* file write) before job "pt" has completed with all its files written.
C5_JobsSequential ==
    (\/ \E i \in DOMAIN rows["es"] : rows["es"][i].requests # <<>>
     \/ \E k \in DOMAIN JobPaths("es") : Written(JobPaths("es")[k]))
    => jobpc["pt"] = "done"

\* the conditions of scenario A on the "es" job (labels current "pt", expected "es")
ScenarioA ==
    /\ csvFiles["es"] = <<Doc1Row>>
    /\ storage["f1"] = <<Hello_, World>>
    /\ jobpc["es"] = "done"
    /\ rows["es"][1].requests = <<1, 2, 3>>
    /\ rows["es"][1].detected = [new |-> "en", old |-> "en"]

OnlyInDifferent(key, id) ==
    LET folder == fileData[key].aggregatedResultsFolder
    IN /\ \E k \in DOMAIN fs[BucketPaths(folder)[1]] : fs[BucketPaths(folder)[1]][k].id = id
       /\ \A k \in DOMAIN fs[BucketPaths(folder)[2]] : fs[BucketPaths(folder)[2]][k].id # id
       /\ \A k \in DOMAIN fs[BucketPaths(folder)[3]] : fs[BucketPaths(folder)[3]][k].id # id

\* C6 as stated: in scenario A the record has textPreview "Hello World", both
\* detected languages "en", and is in the `different` bucket only.
C6_ScenarioA_AsStated ==
    ScenarioA =>
        /\ fs[fileData["es"].output][1].textPreview = HelloSpaceWorld
        /\ fs[fileData["es"].output][1].newDetectedLanguage = "en"
        /\ fs[fileData["es"].output][1].oldDetectedLanguage = "en"
        /\ OnlyInDifferent("es", 1)

\* C6 amended: in scenario A the record has textPreview "HelloWorld" (each page
\* is stripped of its trailing spaces before it is appended), both detected
\* languages "en", and is in the `different` bucket only.
C6_ScenarioA ==
    ScenarioA =>
        /\ fs[fileData["es"].output][1].textPreview = HelloWorld
        /\ fs[fileData["es"].output][1].textPreviewLength = 10
        /\ fs[fileData["es"].output][1].newDetectedLanguage = "en"
        /\ fs[fileData["es"].output][1].oldDetectedLanguage = "en"
        /\ OnlyInDifferent("es", 1)

C6_Witness == ScenarioA

InBucket(r, bucket) == InSeq(Project(r), bucket)

\* C7: aggregateResults puts a record in sameAsCurrent iff its detected code
\* equals its current label, in sameAsExpected iff it equals its expected
\* label, and in different iff it equals neither.
C7_BucketRules ==
    op = "aggregateResults" =>
        \A k \in DOMAIN input :
            LET r == input[k]
            IN /\ InBucket(r, output.sameAsCurrent)
                    <=> r.newDetectedLanguage = r.currentLanguage
               /\ InBucket(r, output.sameAsExpected)
                    <=> r.newDetectedLanguage = r.expectedLanguage
               /\ InBucket(r, output.differentResults)
                    <=> (r.newDetectedLanguage # r.currentLanguage
                         /\ r.newDetectedLanguage # r.expectedLanguage)

\* scenarios B and C in one batch: labels current "pt", expected "es", a record
\* with code "pt" only in sameAsCurrent and one with code "es" only in sameAsExpected
C7_Witness ==
    /\ op = "aggregateResults"
    /\ Len(input) = 2
    /\ \A k \in 1..2 : input[k].currentLanguage = "pt" /\ input[k].expectedLanguage = "es"
    /\ input[1].newDetectedLanguage = "pt"
    /\ input[2].newDetectedLanguage = "es"
    /\ output.sameAsCurrent = <<Project(input[1])>>
    /\ output.sameAsExpected = <<Project(input[2])>>
    /\ output.differentResults = <<>>

\* C8: no record is in different together with sameAsCurrent or sameAsExpected,
\* and a record is in both sameAsCurrent and sameAsExpected only if its
\* current and expected labels are equal.
C8_BucketsExclusive ==
    op = "aggregateResults" =>
        \A k \in DOMAIN input :
            LET r == input[k]
            IN /\ ~(InBucket(r, output.differentResults) /\ InBucket(r, output.sameAsCurrent))
               /\ ~(InBucket(r, output.differentResults) /\ InBucket(r, output.sameAsExpected))
               /\ (InBucket(r, output.sameAsCurrent) /\ InBucket(r, output.sameAsExpected))
                    => r.currentLanguage = r.expectedLanguage

\* a record in both sameAsCurrent and sameAsExpected beside one in different
C8_Witness ==
    /\ op = "aggregateResults"
    /\ \E k \in DOMAIN input :
            InBucket(input[k], output.sameAsCurrent) /\ InBucket(input[k], output.sameAsExpected)
    /\ \E k \in DOMAIN input : InBucket(input[k], output.differentResults)

\* C9: whatever the comparator does, getSample returns min(sampleSize, |bucket|)
\* records, each one an element of the bucket, none more often than in the bucket.
C9_SampleOfBucket ==
    op = "getSample" =>
        /\ Len(output.sample) = Min(sampleSize, Len(input))
        /\ \A k \in DOMAIN output.sample :
                /\ InSeq(output.sample[k], input)
                /\ Count(output.sample, output.sample[k]) <= Count(input, output.sample[k])

\* a bucket larger than the sample, holding a record twice, sampled out of order
C9_Witness ==
    /\ op = "getSample"
    /\ Len(input) = sampleSize + 1
    /\ Len(output.sample) = sampleSize
    /\ \E x \in Range(input) : Count(input, x) = 2
    /\ output.sample # SubSeq(input, 1, sampleSize)

\* C10: on NoSuchKey for page k getTextPreview does not raise: it makes no
\* further request and returns the truncated concatenation of the normalised
\* pages 1..k-1, which is posted to the detection service; with page 1 missing
\* that is the empty string.
C10_NoSuchKeyEndsCleanly ==
    \A ki \in Started :
        LET r == RowOf(ki)
        IN r.answer = "NoSuchKey" =>
            /\ HasReturned(r)
            /\ r.requests[Len(r.requests)] = r.page
            /\ r.returned = Slice(ConcatNormalized(PagesOf(ki), r.page - 1), MAX_TEXT_LENGTH)
            /\ r.posted = <<r.returned>>
            /\ r.page = 1 => (r.returned = <<>> /\ r.posted = << <<>> >>)

\* page 1 was missing and the empty text went to the detection service
C10_Witness ==
    \E ki \in Started :
        /\ PagesOf(ki) = <<>>
        /\ RowOf(ki).answer = "NoSuchKey"
        /\ RowOf(ki).requests = <<1>>
        /\ RowOf(ki).pc = "fulfilled"
        /\ RowOf(ki).posted = << <<>> >>

----------------------------------------------------------------------------
(* Properties of the failure paths and of the fetch loop *)

\* the storage error codes that are not the end of pagination
FatalStorageErrors == StorageErrors \ {"NoSuchKey"}

\* C11: when a storage request fails with anything but NoSuchKey, getTextPreview
\* raises that failure: the row's callback rejects with it, nothing is returned
\* or posted (not even the pages accumulated so far) and the failed request
\* stays the document's last one.
C11_OtherErrorsPropagate ==
    \A ki \in Started :
        LET r == RowOf(ki)
        IN r.answer \in FatalStorageErrors =>
            /\ r.pc = "rejected"
            /\ r.error = r.answer
            /\ ~HasReturned(r)
            /\ r.returned = <<>>
            /\ r.posted = <<>>
            /\ Len(r.requests) = r.page
            /\ r.requests[Len(r.requests)] = r.page
            /\ jobpc[ki[1]] = "rejected"

\* the request for page 2 failed after page 1 had put text in the accumulator
C11_Witness ==
    \E ki \in Started :
        /\ RowOf(ki).answer = "AccessDenied"
        /\ RowOf(ki).page = 2
        /\ RowOf(ki).textPreview # <<>>
        /\ RowOf(ki).pc = "rejected"

----------------------------------------------------------------------------
(* The normalisation of one page applied on its own *)

\* most characters of a page text handed to the normalisation on its own
MaxTextLen == 6

\* a space, a line break, and the letters of "http" (p doubles as any letter)
Alphabet == {" ", "\n", "h", "t", "p"}

InitNormalize ==
    /\ InitJobs
    /\ storage = FixedStorage
    /\ csvFiles = [pt |-> <<>>, es |-> <<>>]
    /\ op = "none"
    /\ input \in SeqsUpTo(Alphabet, MaxTextLen)
    /\ output = <<>>

\* lines 46-50 on the page text `input`
ApplyNormalize ==
    /\ op = "none"
    /\ op' = "normalize"
    /\ output' = Normalize(input)
    /\ UNCHANGED <<storage, csvFiles, mainpc, jobpc, rows, values, settled, buckets, fs,
                   fsLog, exited, input>>

NextNormalize == ApplyNormalize

SpecNormalize == InitNormalize /\ [][NextNormalize]_vars

\* C12: normalising an already normalised page text yields the same text.
C12_NormalizeIdempotent ==
    op = "normalize" => Normalize(output) = output

IsWhitespace(c) == c \in {" ", "\n", "\r", "\t"}

\* For s starting with "http": the first index e >= 5 with s[e] a whitespace
\* character, or Len(s)+1 at the end of the string.
WhitespaceEnd(s) ==
    LET stops == {e \in 5..(Len(s) + 1) : e = Len(s) + 1 \/ IsWhitespace(s[e])}
    IN CHOOSE e \in stops : \A f \in stops : e <= f

\* the text without the characters from each "http" up to, not including, the
\* next whitespace character or the end of the text
RECURSIVE WithoutUrls(_)
WithoutUrls(s) ==
    IF s = <<>> THEN <<>>
    ELSE IF StartsWithHttp(s) THEN WithoutUrls(SubSeq(s, WhitespaceEnd(s), Len(s)))
    ELSE <<s[1]>> \o WithoutUrls(Tail(s))

\* C13: of the page's text, URL-stripping removes exactly the characters from
\* each "http" up to the page's next whitespace character or the end, and
\* nothing beyond that whitespace: the normalised page is the page with its
\* spaces collapsed and trimmed, those characters removed, and its line breaks
\* deleted.
C13_UrlStripStopsAtWhitespace ==
    op = "normalize" =>
        output = DeleteLineBreaks(WithoutUrls(TrimEnds(CollapseSpaces(input))))

----------------------------------------------------------------------------
(* countManualAnalysisResults, lines 231-285 *)

\* most annotated records of one sample file
MaxAnnotated == 2

\* lines 232-235
Folders == <<"aggregated-results/materiais-studenta", "aggregated-results/materiais-pd">>

\* lines 237-246
InitialResult ==
    [newMethod |-> [correct |-> 0, incorrect |-> 0],
     oldMethod |-> [correct |-> 0, incorrect |-> 0]]

\* the property of `result` lines 271 and 273 read
NewCounterKey == "new"

\* the property of `result` lines 277 and 279 read
OldCounterKey == "old"

\* result[key][field]++, a TypeError when result has no property `key`
Increment(acc, key, field) ==
    IF acc.threw \/ key \notin DOMAIN acc.result
    THEN [acc EXCEPT !.threw = TRUE]
    ELSE [acc EXCEPT !.result[key][field] = @ + 1]

\* lines 268-280, one turn of the loop
CountItem(acc, item) ==
    LET afterNew == Increment(acc, NewCounterKey,
                        IF item.newAnalysis = "Correto" THEN "correct" ELSE "incorrect")
    IN Increment(afterNew, OldCounterKey,
                        IF item.oldAnalysis = "Correto" THEN "correct" ELSE "incorrect")

\* lines 267-281
RECURSIVE CountItems(_, _)
CountItems(acc, items) ==
    IF items = <<>> \/ acc.threw THEN acc
    ELSE CountItems(CountItem(acc, Head(items)), Tail(items))

\* lines 249-265: the three sample files of a folder, read and concatenated
TotalAnalysis(files, folder) ==
    files[SamplePaths(folder)[1]] \o files[SamplePaths(folder)[2]] \o files[SamplePaths(folder)[3]]

\* lines 248-282 for one folder; readFileSync throws when a file is missing
CountFolder(acc, files, folder) ==
    IF acc.threw THEN acc
    ELSE IF \E k \in 1..3 : SamplePaths(folder)[k] \notin DOMAIN files
         THEN [acc EXCEPT !.threw = TRUE]
         ELSE CountItems(acc, TotalAnalysis(files, folder))

\* the function: whether it threw, and `result` as it stood then
countManualAnalysisResults(files) ==
    CountFolder(CountFolder([threw |-> FALSE, result |-> InitialResult], files, Folders[1]),
                files, Folders[2])

\* what the reviewers entered
Verdicts == {"Correto", "Incorreto"}

AnnotatedRecords ==
    {[id |-> 1, name |-> "Doc", currentLanguage |-> "pt", expectedLanguage |-> "es",
      newDetectedLanguage |-> "en", oldDetectedLanguage |-> "",
      newAnalysis |-> n, oldAnalysis |-> o] : n \in Verdicts, o \in Verdicts}

\* the six sample files exist; one of each folder holds annotated records
AnnotatedFiles ==
    {[q \in Range(SamplePaths(Folders[1])) \cup Range(SamplePaths(Folders[2])) |->
        IF q = SamplePaths(Folders[1])[1] THEN a
        ELSE IF q = SamplePaths(Folders[2])[3] THEN b
        ELSE <<>>] :
     a \in SeqsUpTo(AnnotatedRecords, MaxAnnotated),
     b \in SeqsUpTo(AnnotatedRecords, MaxAnnotated)}

InitCount ==
    /\ mainpc = 0
    /\ jobpc = [key \in Jobs |-> "idle"]
    /\ rows = [key \in Jobs |-> <<>>]
    /\ values = [key \in Jobs |-> <<>>]
    /\ settled = [key \in Jobs |-> <<>>]
    /\ buckets = [key \in Jobs |-> NoBuckets]
    /\ fsLog = <<>>
    /\ exited = FALSE
    /\ storage = FixedStorage
    /\ csvFiles = [pt |-> <<>>, es |-> <<>>]
    /\ fs \in AnnotatedFiles
    /\ op = "none"
    /\ input = <<>>
    /\ output = <<>>

ApplyCount ==
    /\ op = "none"
    /\ op' = "countManualAnalysisResults"
    /\ output' = countManualAnalysisResults(fs)
    /\ UNCHANGED <<storage, csvFiles, mainpc, jobpc, rows, values, settled, buckets, fs,
                   fsLog, exited, input>>

NextCount == ApplyCount

SpecCount == InitCount /\ [][NextCount]_vars

\* every record of the six sample files, in the order they are read
AllAnnotated ==
    TotalAnalysis(fs, Folders[1]) \o TotalAnalysis(fs, Folders[2])

NumberCorrect(items, field) ==
    Cardinality({k \in DOMAIN items : items[k][field] = "Correto"})

\* C14: over the annotated sample files countManualAnalysisResults completes
\* and holds, per detector, `correct` = the number of records whose verdict is
\* literally "Correto" and `incorrect` = the number of all other records.
C14_TallyPerDetector ==
    op = "countManualAnalysisResults" =>
        /\ ~output.threw
        /\ output.result.newMethod.correct = NumberCorrect(AllAnnotated, "newAnalysis")
        /\ output.result.newMethod.incorrect =
                Len(AllAnnotated) - NumberCorrect(AllAnnotated, "newAnalysis")
        /\ output.result.oldMethod.correct = NumberCorrect(AllAnnotated, "oldAnalysis")
        /\ output.result.oldMethod.incorrect =
                Len(AllAnnotated) - NumberCorrect(AllAnnotated, "oldAnalysis")

----------------------------------------------------------------------------
(* Properties of detectLanguage *)

\* the service call failed: network error, malformed response, missing or
\* empty candidate list
ServiceFailed(resp) ==
    \/ resp.kind \in {"networkError", "notJson"}
    \/ ~resp.hasLanguage
    \/ resp.language = <<>>

\* C15: when the detection-service call fails, detectLanguage raises and yields
\* no result at all (the row rejects, no record and no old-only value is kept);
\* when it succeeds, a legacy detector without a guess is no failure and the
\* record carries the service's code with oldDetectedLanguage "".
C15_ServiceFailureAborts ==
    [][\A key \in Jobs, i \in 1..MaxRows, resp \in ServiceResponses, guesses \in LegacyGuesses :
        DetectAnswered(key, i, resp, guesses) =>
            IF ServiceFailed(resp)
            THEN /\ rows'[key][i].pc = "rejected"
                 /\ rows'[key][i].detected = [new |-> "", old |-> ""]
                 /\ values'[key][i] = EmptySlot
                 /\ jobpc'[key] = "rejected"
            ELSE /\ rows'[key][i].pc = "fulfilled"
                 /\ values'[key][i].newDetectedLanguage = resp.language[1].codex
                 /\ guesses = <<>> => values'[key][i].oldDetectedLanguage = ""
                 /\ guesses # <<>> => values'[key][i].oldDetectedLanguage = guesses[1][1]]_vars

\* one row of a job got the service's code without a legacy guess, another
\* row's detection failed
C15_Witness ==
    \E key \in Jobs :
        /\ Len(rows[key]) = 2
        /\ rows[key][1].pc = "fulfilled"
        /\ values[key][1].newDetectedLanguage \in Codes
        /\ values[key][1].oldDetectedLanguage = ""
        /\ rows[key][2].pc = "rejected"
        /\ rows[key][2].error = "detect"
        /\ values[key][2] = EmptySlot

----------------------------------------------------------------------------
(* Properties of the fetch loop *)

\* C16 as stated: for a document whose first stored page is longer than
\* MAX_TEXT_LENGTH, only page 1 is ever requested and the preview returned is
\* that page's normalised text cut to MAX_TEXT_LENGTH.
C16_LongFirstPage_AsStated ==
    \A ki \in Started :
        LET r == RowOf(ki)
            pages == PagesOf(ki)
        IN (pages # <<>> /\ Len(pages[1]) > MAX_TEXT_LENGTH) =>
            /\ \A k \in DOMAIN r.requests : r.requests[k] = 1 /\ k = 1
            /\ HasReturned(r) => r.returned = Slice(Normalize(pages[1]), MAX_TEXT_LENGTH)

\* C16 amended: for a document whose first page is still longer than
\* MAX_TEXT_LENGTH after normalisation, only page 1 is ever requested and the
\* preview returned is that page's normalised text cut to MAX_TEXT_LENGTH.
C16_LongFirstPage ==
    \A ki \in Started :
        LET r == RowOf(ki)
            pages == PagesOf(ki)
        IN (pages # <<>> /\ Len(Normalize(pages[1])) > MAX_TEXT_LENGTH) =>
            /\ \A k \in DOMAIN r.requests : r.requests[k] = 1 /\ k = 1
            /\ HasReturned(r) =>
                    /\ r.returned = Slice(Normalize(pages[1]), MAX_TEXT_LENGTH)
                    /\ Len(r.returned) = MAX_TEXT_LENGTH

\* a two-page document with a long first page was read: one request, cut preview
C16_Witness ==
    \E ki \in Started :
        /\ Len(PagesOf(ki)) = 2
        /\ Len(Normalize(PagesOf(ki)[1])) > MAX_TEXT_LENGTH
        /\ HasReturned(RowOf(ki))
        /\ RowOf(ki).requests = <<1>>
        /\ Len(RowOf(ki).returned) = MAX_TEXT_LENGTH

----------------------------------------------------------------------------
(* Properties of the order of a job's steps *)

\* the paths of the job among the files written, in the order they were written
WrittenBy(key) ==
    LET paths == Range(JobPaths(key))
    IN SelectSeq(fsLog, LAMBDA q : q \in paths)

IsPrefix(a, b) == Len(a) <= Len(b) /\ a = SubSeq(b, 1, Len(a))

\* the order runJob writes in: full results, three buckets, three samples
StepOrder(key) ==
    <<fileData[key].output>>
    \o <<fileData[key].aggregatedResultsFolder \o "/different-than-expected-and-current.json",
         fileData[key].aggregatedResultsFolder \o "/same-as-current.json",
         fileData[key].aggregatedResultsFolder \o "/same-as-expected.json">>
    \o <<fileData[key].aggregatedResultsFolder
            \o "/manual-analysis/different-than-expected-and-current-sample.json",
         fileData[key].aggregatedResultsFolder \o "/manual-analysis/same-as-current-sample.json",
         fileData[key].aggregatedResultsFolder \o "/manual-analysis/same-as-expected-sample.json">>

InRowOrder(records) ==
    \A a, b \in DOMAIN records : a < b => records[a].id < records[b].id

\* C17: a job writes no file before every row's fetch+detect has completed; it
\* writes the full results first, then the three bucket files, then the three
\* sample files; and the bucket files are written before any sample is drawn,
\* so each holds its records in row order whatever the shuffle then does.
C17_StepsInOrder ==
    fsLog # <<>> =>
        \A key \in Jobs :
            LET written == WrittenBy(key)
                order == StepOrder(key)
            IN /\ written # <<>> =>
                    /\ Len(rows[key]) = Len(csvFiles[key])
                    /\ \A i \in DOMAIN rows[key] : rows[key][i].pc = "fulfilled"
               /\ IsPrefix(written, order)
               /\ \A k \in 2..4 : order[k] \in DOMAIN fs => InRowOrder(fs[order[k]])

\* a finished job whose sampling reversed a bucket of two after its file was written
C17_Witness ==
    \E key \in Jobs :
        /\ jobpc[key] = "done"
        /\ WrittenBy(key) = StepOrder(key)
        /\ Len(buckets[key].differentResults) = 2
        /\ ~InRowOrder(buckets[key].differentResults)
        /\ InRowOrder(fs[StepOrder(key)[2]])

----------------------------------------------------------------------------
(* Properties of the pagination *)

\* storage has answered every request of the row so far with a page or NoSuchKey
StorageAnswered(r) == r.answer \in {"none", "Ok", "NoSuchKey"}

\* the requests of the row go 1, 2, 3, ... and number at most N+1; page k+1 is
\* requested only once page k exists, was retrieved and left the accumulated
\* text shorter than MAX_TEXT_LENGTH; a pending request is the last one made
PaginationInOrder ==
    \A ki \in Started :
        LET r == RowOf(ki)
            pages == PagesOf(ki)
        IN StorageAnswered(r) =>
            /\ \A k \in DOMAIN r.requests : r.requests[k] = k
            /\ Len(r.requests) <= Len(pages) + 1
            /\ \A k \in DOMAIN r.requests :
                    k > 1 => /\ k - 1 <= Len(pages)
                             /\ r.page >= k
                             /\ Len(ConcatNormalized(pages, k - 1)) < MAX_TEXT_LENGTH
            /\ (r.pc = "fetching" /\ ~exited) =>
                    /\ r.requests # <<>>
                    /\ r.requests[Len(r.requests)] = r.page

\* every answer of storage either ends the loop or is followed by the request
\* for the next page
AnswerEndsOrAdvances ==
    \A ki \in AllRows :
        (ki \in Started /\ RowOf(ki).pc = "fetching" /\ rows'[ki[1]][ki[2]] # RowOf(ki)) =>
            \/ rows'[ki[1]][ki[2]].pc # "fetching"
            \/ rows'[ki[1]][ki[2]].requests = Append(RowOf(ki).requests, Len(RowOf(ki).requests) + 1)

\* C18: with pages 1..N stored and a storage that answers every request,
\* getTextPreview ends after at most N+1 requests, made in the order 1, 2, 3, ...
\* without gap or repetition, page k+1 only after page k was retrieved with
\* the accumulated text still shorter than MAX_TEXT_LENGTH.
C18_PaginationTerminates ==
    []PaginationInOrder /\ [][AnswerEndsOrAdvances]_vars

\* a two-page document read to its end: three requests, the last one not found
C18_Witness ==
    \E ki \in Started :
        /\ Len(PagesOf(ki)) = 2
        /\ RowOf(ki).requests = <<1, 2, 3>>
        /\ RowOf(ki).answer = "NoSuchKey"
        /\ HasReturned(RowOf(ki))


\* the number of buckets of agg that hold the record r
BucketsHolding(r, agg) ==
    Cardinality({b \in {"differentResults", "sameAsCurrent", "sameAsExpected"} :
                    InBucket(r, agg[b])})

LabelsDiffer(results) ==
    \A k \in DOMAIN results : results[k].currentLanguage # results[k].expectedLanguage

\* C19: aggregateResults puts every record in at least one of the three
\* buckets, and in exactly one when its current and expected labels differ;
\* both configured jobs label their records that way, and for such records the
\* three bucket sizes add up to the number of records.
C19_ClassificationExhaustive ==
    /\ \A key \in Jobs : fileData[key].currentLanguage # fileData[key].expectedLanguage
    /\ op = "aggregateResults" =>
        /\ \A k \in DOMAIN input :
                /\ BucketsHolding(input[k], output) >= 1
                /\ input[k].currentLanguage # input[k].expectedLanguage
                        => BucketsHolding(input[k], output) = 1
        /\ LabelsDiffer(input) =>
                Len(output.differentResults) + Len(output.sameAsCurrent)
                    + Len(output.sameAsExpected) = Len(input)

\* two records labelled current "pt", expected "es" that land in two buckets,
\* one as neither label and one as the expected label
C19_Witness ==
    /\ op = "aggregateResults"
    /\ Len(input) = 2
    /\ LabelsDiffer(input)
    /\ input[1].currentLanguage = "pt" /\ input[1].expectedLanguage = "es"
    /\ input[1].newDetectedLanguage = "en"
    /\ input[2].newDetectedLanguage = input[2].expectedLanguage
    /\ Len(output.differentResults) = 1
    /\ Len(output.sameAsCurrent) = 0
    /\ Len(output.sameAsExpected) = 1


\* a and b hold the same records, each as often in one as in the other
IsPermutation(a, b) ==
    /\ Len(a) = Len(b)
    /\ \A x \in Range(a) \cup Range(b) : Count(a, x) = Count(b, x)

\* C20: once a job has sampled its buckets, each bucket array is a permutation
\* of what aggregateResults put in it (the bucket file written before the
\* sampling), so no record was added, dropped, duplicated or moved to another
\* bucket, and the full results list is still the one that was written.
C20_SamplingOnlyReorders ==
    \A key \in Jobs :
        jobpc[key] = "done" =>
            LET paths == BucketPaths(fileData[key].aggregatedResultsFolder)
                agg == aggregateResults(values[key])
            IN /\ IsPermutation(buckets[key].differentResults, fs[paths[1]])
               /\ IsPermutation(buckets[key].sameAsCurrent, fs[paths[2]])
               /\ IsPermutation(buckets[key].sameAsExpected, fs[paths[3]])
               /\ fs[paths[1]] = agg.differentResults
               /\ fs[paths[2]] = agg.sameAsCurrent
               /\ fs[paths[3]] = agg.sameAsExpected
               /\ values[key] = fs[fileData[key].output]

\* a finished job whose different bucket holds two records in the reverse of
\* the order of its file, beside an untouched empty bucket
C20_Witness ==
    \E key \in Jobs :
        LET paths == BucketPaths(fileData[key].aggregatedResultsFolder)
        IN /\ jobpc[key] = "done"
           /\ Len(values[key]) = 2
           /\ Len(fs[paths[1]]) = 2
           /\ buckets[key].differentResults = <<fs[paths[1]][2], fs[paths[1]][1]>>
           /\ buckets[key].differentResults # fs[paths[1]]
           /\ buckets[key].sameAsCurrent = <<>>

====
